---- MODULE Spec2Model ----
(***************************************************************************)
(* A model of sled's IVec (src/src/ivec.rs): a byte buffer that is either  *)
(* stored inline (up to CUTOFF bytes) or held in a reference-counted       *)
(* Arc<[u8]>, in full (Remote) or through an offset/length window          *)
(* (Subslice).  The heap of Arc buffers, with their strong counts, is      *)
(* modelled explicitly so that sharing, copy-on-write and release of       *)
(* buffers are observable.                                                 *)
(***************************************************************************)
EXTENDS Integers, Sequences, FiniteSets, TLC

\* ---------------------------------------------------------------- bounds
\* number of IVec variables the client program holds at once
MaxVals == 2
\* number of Arc<[u8]> allocations that can exist at once
MaxBufs == 2
\* number of bare Arc<[u8]> handles the client program holds at once
MaxHandles == 2
\* number of operations the client program performs
MaxSteps == 5

\* ------------------------------------------------------- program constants
CUTOFF == 22
\* the length used by the tests ivec_usage / boxed_slice_conversion
BigLen == 128
\* the largest fixed array size of from_array!
MaxArray == 32
\* the range of u8 (the Inline length tag)
U8Max == 255

Slots == 1..MaxVals
Bufs == 1..MaxBufs
NoBuf == 0

\* ------------------------------------------------------------------ inputs
Ramp(n) == [i \in 1..n |-> i]

\* The byte sequences values are constructed from: empty, short, exactly
\* the cutoff, one above the cutoff, and far above the cutoff ([4; 128]).
Inputs ==
  << <<>>, <<1, 2, 3>>, Ramp(CUTOFF), Ramp(CUTOFF + 1), [i \in 1..BigLen |-> 4],
     <<2, 3>> >>

\* the inputs of the specification of sharing and mutation: one below and
\* one above the cutoff
MainInputs == {2, 4}
AllInputs == {1, 2, 3, 4, 5}

\* the inputs of the specification of subslice chains: the last one equals a
\* window of the others
SliceInputs == AllInputs \cup {6}

Kinds == {"slice", "vec", "box", "str", "array", "iter", "default"}

\* the byte written through a mutable view
WriteVals == {9}

\* ------------------------------------------------------------- the Arc heap
\* A free cell has strong = 0.
FreeBuf == [bytes |-> <<>>, strong |-> 0]

HasFree(h) == \E b \in Bufs : h[b].strong = 0

\* Arc::from(bytes): a fresh allocation with strong count 1.  buf = NoBuf
\* when the model's heap is exhausted (the action is then not taken).
ArcFrom(h, bs) ==
  IF HasFree(h)
    THEN LET b == CHOOSE b \in Bufs :
                    /\ h[b].strong = 0
                    /\ \A c \in Bufs : c < b => h[c].strong # 0
         IN [heap |-> [h EXCEPT ![b] = [bytes |-> bs, strong |-> 1]], buf |-> b]
    ELSE [heap |-> h, buf |-> NoBuf]

\* Arc::clone: one more strong reference.
ArcClone(h, b) == [h EXCEPT ![b].strong = @ + 1]

\* Arc::drop: one strong reference fewer; the storage is freed at zero.
ArcDrop(h, b) ==
  IF h[b].strong = 1 THEN [h EXCEPT ![b] = FreeBuf]
                     ELSE [h EXCEPT ![b].strong = @ - 1]

\* ------------------------------------------------------------ Data / State
InlineData == [i \in 1..CUTOFF |-> 0]

DataInline(a) == [inline |-> a, remote |-> NoBuf]
DataRemote(b) == [inline |-> InlineData, remote |-> b]

StateInline(n) == [tag |-> "Inline", offset |-> 0, len |-> n]
StateRemote == [tag |-> "Remote", offset |-> 0, len |-> 0]
StateSubslice(o, n) == [tag |-> "Subslice", offset |-> o, len |-> n]

\* an IVec variable that holds no value (never assigned, moved or dropped)
NoVal == [data |-> DataRemote(NoBuf), state |-> [tag |-> "None", offset |-> 0, len |-> 0]]

Live(iv) == iv.state.tag # "None"
Shared(iv) == iv.state.tag \in {"Remote", "Subslice"}

\* is_inline_candidate with a cutoff one byte too low
is_inline_candidate_lt(length) == length < CUTOFF

\* is_inline_candidate admitting one byte more than the inline array holds
is_inline_candidate_past_cutoff(length) == length <= CUTOFF + 1

is_inline_candidate(length) == length <= CUTOFF

\* u8::try_from(n): the value, or -1 for Err (unwrap then panics)
u8_try_from(n) == IF n <= U8Max THEN n ELSE -1

\* bs[from..to) with 0-based bounds, as a Rust range index
Range(bs, from, to) == [i \in 1..(to - from) |-> bs[from + i]]

\* AsRef<[u8]>::as_ref: the resolved bytes
as_ref(h, iv) ==
  CASE iv.state.tag = "Inline" -> Range(iv.data.inline, 0, iv.state.len)
    [] iv.state.tag = "Remote" -> h[iv.data.remote].bytes
    [] iv.state.tag = "Subslice" ->
         Range(h[iv.data.remote].bytes, iv.state.offset,
               iv.state.offset + iv.state.len)
    [] OTHER -> <<>>

\* slice len() through Deref
len(h, iv) == Len(as_ref(h, iv))

strong_count(h, d) == h[d.remote].strong

clone_as_inline(d) == DataInline(d.inline)

\* clone_as_remote copying the pointer bits without Arc::clone
clone_as_remote_no_incr(h, d) == h

\* Data::clone_as_remote: the heap after cloning the Arc (the data itself
\* is the same pointer)
clone_as_remote(h, d) == ArcClone(h, d.remote)

\* IVec::inline copying one byte too few
inline_short(slice) ==
  [data |-> DataInline([i \in 1..CUTOFF |->
                          IF i < Len(slice) THEN slice[i] ELSE 0]),
   state |-> StateInline(u8_try_from(Len(slice)))]

\* IVec::inline
inline(slice) ==
  [data |-> DataInline([i \in 1..CUTOFF |->
                          IF i <= Len(slice) THEN slice[i] ELSE 0]),
   state |-> StateInline(u8_try_from(Len(slice)))]

\* the assertion and the unwrap of IVec::inline
inline_panics(slice) ==
  \/ ~is_inline_candidate(Len(slice))
  \/ u8_try_from(Len(slice)) = -1

\* IVec::remote
remote(b) == [data |-> DataRemote(b), state |-> StateRemote]

\* ------------------------------------------------------------- operations
\* Each operation yields [ivec, heap, panic, allocs, oom]: the value it
\* produces (or the receiver as it leaves it), the heap afterwards, whether
\* it panicked, how many buffers it allocated, and whether the model's heap
\* was too small for it (oom: the action is then not taken).
Result(iv, h, p, n) ==
  [ivec |-> iv, heap |-> h, panic |-> p, allocs |-> n, oom |-> FALSE]
Oom(h) == [ivec |-> NoVal, heap |-> h, panic |-> FALSE, allocs |-> 0, oom |-> TRUE]

\* the assertion of IVec::subslice with > for >=
subslice_assert_strict(n, slice_offset, length) ==
  /\ n >= slice_offset
  /\ n - slice_offset > length

\* the assertion of IVec::subslice checking the length against the whole
\* receiver, not against what is left after the offset
subslice_assert_no_offset(n, slice_offset, length) ==
  /\ n >= slice_offset
  /\ n >= length

\* the assertion of IVec::subslice:
\* self.len().checked_sub(slice_offset).unwrap() >= len
subslice_assert(n, slice_offset, length) ==
  /\ n >= slice_offset
  /\ n - slice_offset >= length

\* IVec::subslice taking the offset relative to the receiver's window
\* instead of accumulating it
subslice_window_offset(h, iv, slice_offset, length) ==
  IF ~subslice_assert(len(h, iv), slice_offset, length)
    THEN Result(NoVal, h, TRUE, 0)
    ELSE CASE iv.state.tag = "Inline" ->
                Result([data |-> DataInline(
                          [i \in 1..CUTOFF |->
                             IF i <= length
                               THEN iv.data.inline[slice_offset + i] ELSE 0]),
                        state |-> StateInline(u8_try_from(length))],
                       h, u8_try_from(length) = -1, 0)
           [] OTHER ->
                Result([data |-> iv.data,
                        state |-> StateSubslice(slice_offset, length)],
                       clone_as_remote(h, iv.data), FALSE, 0)

\* IVec::subslice copying a short window of a shared buffer into an Inline
\* value
subslice_inline_short(h, iv, slice_offset, length) ==
  IF ~subslice_assert(len(h, iv), slice_offset, length)
    THEN Result(NoVal, h, TRUE, 0)
    ELSE IF is_inline_candidate(length)
      THEN Result(inline(Range(as_ref(h, iv), slice_offset, slice_offset + length)),
                  h, FALSE, 0)
      ELSE Result([data |-> iv.data,
                   state |-> StateSubslice(
                     IF iv.state.tag = "Subslice"
                       THEN iv.state.offset + slice_offset ELSE slice_offset,
                     length)],
                  clone_as_remote(h, iv.data), FALSE, 0)

\* IVec::subslice
subslice(h, iv, slice_offset, length) ==
  IF ~subslice_assert(len(h, iv), slice_offset, length)
    THEN Result(NoVal, h, TRUE, 0)
    ELSE CASE iv.state.tag = "Remote" ->
                Result([data |-> iv.data,
                        state |-> StateSubslice(slice_offset, length)],
                       clone_as_remote(h, iv.data), FALSE, 0)
           [] iv.state.tag = "Inline" ->
                Result([data |-> DataInline(
                          [i \in 1..CUTOFF |->
                             IF i <= length
                               THEN iv.data.inline[slice_offset + i] ELSE 0]),
                        state |-> StateInline(u8_try_from(length))],
                       h, u8_try_from(length) = -1, 0)
           [] iv.state.tag = "Subslice" ->
                Result([data |-> iv.data,
                        state |-> StateSubslice(iv.state.offset + slice_offset,
                                                length)],
                       clone_as_remote(h, iv.data), FALSE, 0)

\* IVec::make_mut copying the whole buffer of a shared Subslice instead of
\* its window
make_mut_whole_buffer(h, iv) ==
  IF Shared(iv) /\ strong_count(h, iv.data) # 1
    THEN LET a == ArcFrom(h, h[iv.data.remote].bytes)
         IN IF a.buf = NoBuf THEN Oom(h)
            ELSE Result([data |-> DataRemote(a.buf), state |-> StateRemote],
                        a.heap, FALSE, 1)
    ELSE Result(iv, h, FALSE, 0)

\* IVec::make_mut without the copy of a shared Remote
make_mut_no_remote_copy(h, iv) ==
  IF iv.state.tag = "Subslice" /\ strong_count(h, iv.data) # 1
    THEN LET a == ArcFrom(h, Range(h[iv.data.remote].bytes, iv.state.offset,
                                   iv.state.offset + iv.state.len))
         IN IF a.buf = NoBuf THEN Oom(h)
            ELSE Result([data |-> DataRemote(a.buf), state |-> StateRemote],
                        a.heap, FALSE, 1)
    ELSE Result(iv, h, FALSE, 0)

\* IVec::make_mut without self.state = State::Remote after the copy of a
\* shared Subslice's window
make_mut_keeps_state(h, iv) ==
  IF Shared(iv) /\ strong_count(h, iv.data) # 1
    THEN LET a == ArcFrom(h, as_ref(h, iv))
         IN IF a.buf = NoBuf THEN Oom(h)
            ELSE Result([iv EXCEPT !.data = DataRemote(a.buf)], a.heap, FALSE, 1)
    ELSE Result(iv, h, FALSE, 0)

\* IVec::make_mut.  The assignment self.data = Data {..} overwrites a union
\* that has no Drop: the Arc it held is not released.
make_mut(h, iv) ==
  IF iv.state.tag = "Remote" /\ strong_count(h, iv.data) # 1
    THEN LET a == ArcFrom(h, h[iv.data.remote].bytes)
         IN IF a.buf = NoBuf THEN Oom(h)
            ELSE Result([iv EXCEPT !.data = DataRemote(a.buf)], a.heap, FALSE, 1)
  ELSE IF iv.state.tag = "Subslice" /\ strong_count(h, iv.data) # 1
    THEN LET a == ArcFrom(h, Range(h[iv.data.remote].bytes, iv.state.offset,
                                   iv.state.offset + iv.state.len))
         IN IF a.buf = NoBuf THEN Oom(h)
            ELSE Result([data |-> DataRemote(a.buf), state |-> StateRemote],
                        a.heap, FALSE, 1)
  ELSE Result(iv, h, FALSE, 0)

\* A mutable view: where the &mut [u8] returned by as_mut points.
NoView == [kind |-> "none", buf |-> NoBuf, offset |-> 0, len |-> 0]

\* Arc::get_mut: Some only for the sole owner
get_mut_some(h, d) == h[d.remote].strong = 1

\* AsMut<[u8]>::as_mut, after make_mut: the view, and whether unwrap panics
as_mut_view(h, iv) ==
  CASE iv.state.tag = "Inline" ->
         [kind |-> "inline", buf |-> NoBuf, offset |-> 0, len |-> iv.state.len]
    [] iv.state.tag = "Remote" ->
         IF get_mut_some(h, iv.data)
           THEN [kind |-> "arc", buf |-> iv.data.remote, offset |-> 0,
                 len |-> Len(h[iv.data.remote].bytes)]
           ELSE NoView
    [] iv.state.tag = "Subslice" ->
         IF get_mut_some(h, iv.data)
           THEN [kind |-> "arc", buf |-> iv.data.remote,
                 offset |-> iv.state.offset, len |-> iv.state.len]
           ELSE NoView

\* AsMut<[u8]>::as_mut as a whole
as_mut(h, iv) ==
  LET m == make_mut(h, iv)
  IN IF m.oom THEN m
     ELSE [m EXCEPT !.panic = (as_mut_view(m.heap, m.ivec) = NoView)]

\* Clone for IVec
clone(h, iv) ==
  CASE iv.state.tag = "Inline" ->
         Result([data |-> clone_as_inline(iv.data), state |-> iv.state], h, FALSE, 0)
    [] iv.state.tag = "Remote" ->
         Result([data |-> iv.data, state |-> iv.state],
                clone_as_remote(h, iv.data), FALSE, 0)
    [] iv.state.tag = "Subslice" ->
         Result([data |-> iv.data, state |-> iv.state],
                clone_as_remote(h, iv.data), FALSE, 0)

\* Drop for IVec: the heap afterwards
drop(h, iv) ==
  IF iv.state.tag \in {"Remote", "Subslice"} THEN ArcDrop(h, iv.data.remote)
                                             ELSE h

\* From<&[u8]> for IVec
from_slice(h, slice) ==
  IF is_inline_candidate(Len(slice))
    THEN Result(inline(slice), h, inline_panics(slice), 0)
    ELSE LET a == ArcFrom(h, slice)
         IN IF a.buf = NoBuf THEN Oom(h)
            ELSE Result(remote(a.buf), a.heap, FALSE, 1)

\* From<Box<[u8]>> for IVec
from_box(h, b) ==
  IF is_inline_candidate(Len(b))
    THEN Result(inline(b), h, inline_panics(b), 0)
    ELSE LET a == ArcFrom(h, b)
         IN IF a.buf = NoBuf THEN Oom(h)
            ELSE Result(remote(a.buf), a.heap, FALSE, 1)

\* From<Vec<u8>> for IVec
from_vec(h, v) ==
  IF is_inline_candidate(Len(v))
    THEN Result(inline(v), h, inline_panics(v), 0)
    ELSE LET a == ArcFrom(h, v)
         IN IF a.buf = NoBuf THEN Oom(h)
            ELSE Result(remote(a.buf), a.heap, FALSE, 1)

\* From<&str> for IVec: Self::from(s.as_bytes())
from_str(h, s) == from_slice(h, s)

\* From<&[u8; N]> for IVec (from_array!): Self::from(&v[..])
from_array(h, v) == from_slice(h, v)

\* FromIterator<u8> for IVec: collect into a Vec, then into()
from_iter(h, it) == from_vec(h, it)

\* Default for IVec: Self::from(&[])
default(h) == from_array(h, <<>>)

\* From<Arc<[u8]>> for IVec: the handle is moved into the value, or copied
\* from and dropped
from_arc(h, b) ==
  IF is_inline_candidate(Len(h[b].bytes))
    THEN Result(inline(h[b].bytes), ArcDrop(h, b), FALSE, 0)
    ELSE Result(remote(b), h, FALSE, 0)

\* Into<Arc<[u8]>> handing out the Remote value's own reference without
\* cloning it first
into_no_clone(h, iv) ==
  CASE iv.state.tag = "Inline" ->
         LET a == ArcFrom(h, as_ref(h, iv))
         IN [heap |-> a.heap, buf |-> a.buf, allocs |-> 1, oom |-> a.buf = NoBuf]
    [] iv.state.tag = "Remote" ->
         [heap |-> drop(h, iv), buf |-> iv.data.remote,
          allocs |-> 0, oom |-> FALSE]
    [] iv.state.tag = "Subslice" ->
         LET a == ArcFrom(h, as_ref(h, iv))
         IN [heap |-> IF a.buf = NoBuf THEN h ELSE drop(a.heap, iv),
             buf |-> a.buf, allocs |-> 1, oom |-> a.buf = NoBuf]

\* Into<Arc<[u8]>> for IVec: [heap, buf, allocs, oom]; self is dropped when
\* the function returns
into(h, iv) ==
  CASE iv.state.tag = "Inline" ->
         LET a == ArcFrom(h, as_ref(h, iv))
         IN [heap |-> a.heap, buf |-> a.buf, allocs |-> 1, oom |-> a.buf = NoBuf]
    [] iv.state.tag = "Remote" ->
         [heap |-> drop(clone_as_remote(h, iv.data), iv), buf |-> iv.data.remote,
          allocs |-> 0, oom |-> FALSE]
    [] iv.state.tag = "Subslice" ->
         LET a == ArcFrom(h, as_ref(h, iv))
         IN [heap |-> IF a.buf = NoBuf THEN h ELSE drop(a.heap, iv),
             buf |-> a.buf, allocs |-> 1, oom |-> a.buf = NoBuf]

\* Ord for [u8]: the first differing byte decides, then the lengths
slice_cmp(a, b) ==
  LET n == IF Len(a) < Len(b) THEN Len(a) ELSE Len(b)
      diff == {i \in 1..n : a[i] # b[i]}
  IN IF diff # {}
       THEN LET k == CHOOSE i \in diff : \A j \in diff : i <= j
            IN IF a[k] < b[k] THEN "Less" ELSE "Greater"
       ELSE IF Len(a) < Len(b) THEN "Less"
       ELSE IF Len(a) > Len(b) THEN "Greater"
       ELSE "Equal"

\* the Hasher the client passes in is any H: its result is a function of the
\* words written to it, which stand for it here
hasher_write(st, words) == st \o words

\* Hash for [u8]: the length, then the bytes
slice_hash(bs) == hasher_write(hasher_write(<<>>, <<Len(bs)>>), bs)

\* Hash for IVec
hash(h, iv) == slice_hash(as_ref(h, iv))

\* Ord::cmp and PartialOrd::partial_cmp for IVec
cmp(h, iv, other) == slice_cmp(as_ref(h, iv), as_ref(h, other))

\* PartialEq derived over the fields instead of the resolved bytes
eq_fields(h, iv, other) == iv = other

\* PartialEq<T: AsRef<[u8]>> for IVec
eq(h, iv, other) == as_ref(h, iv) = as_ref(h, other)

\* ------------------------------------------------------------------- state
VARIABLES
  vals,     \* the client's IVec variables: Slots -> IVec (NoVal when empty)
  heap,     \* the Arc<[u8]> allocations: Bufs -> [bytes, strong]
  handles,  \* bare Arc<[u8]> handles the client holds: Bufs -> how many
  views,    \* outstanding &mut [u8] borrows returned by as_mut: Slots -> view
  last,     \* the operation performed last and its outcome
  steps,    \* how many operations the client has performed
  thr       \* the two threads the values were moved to, if any

vars == <<vals, heap, handles, views, last, steps, thr>>

\* op: the operation; v: the variable it was called on; r: the variable its
\* result is bound to; panic: whether it panicked; allocs: the buffers it
\* allocated
NoOp == [op |-> "none", v |-> 0, r |-> 0, panic |-> FALSE, allocs |-> 0]

\* pc: where the writing thread stands in as_mut; v: the variable it owns;
\* w: the variable the other thread owns; tmp: the buffer make_mut has
\* allocated and not bound yet; clones: the clones of w the other thread holds
NoThreads == [pc |-> "idle", v |-> 0, w |-> 0, tmp |-> NoBuf, clones |-> 0]

Init ==
  /\ vals = [s \in Slots |-> NoVal]
  /\ heap = [b \in Bufs |-> FreeBuf]
  /\ handles = [b \in Bufs |-> 0]
  /\ views = [s \in Slots |-> NoView]
  /\ last = NoOp
  /\ steps = 0
  /\ thr = NoThreads

\* the variable a newly produced value is bound to
FreeSlot(s) ==
  /\ ~Live(vals[s])
  /\ \A t \in Slots : t < s => Live(vals[t])

RECURSIVE SumHandles(_, _)
SumHandles(hs, b) == IF b = 0 THEN 0 ELSE hs[b] + SumHandles(hs, b - 1)

\* the input kinds a byte sequence can arrive in
KindAccepts(kind, bs) ==
  CASE kind = "array" -> Len(bs) <= MaxArray
    [] kind = "default" -> bs = <<>>
    [] OTHER -> TRUE

\* the From impl an input kind selects
from_kind(kind, h, bs) ==
  CASE kind = "slice" -> from_slice(h, bs)
    [] kind = "vec" -> from_vec(h, bs)
    [] kind = "box" -> from_box(h, bs)
    [] kind = "str" -> from_str(h, bs)
    [] kind = "array" -> from_array(h, bs)
    [] kind = "iter" -> from_iter(h, bs)
    [] kind = "default" -> default(h)

\* IVec::from(bytes) for a slice, Vec, Box, str, array or iterator, and
\* IVec::default(), bound to a new variable
From(kind, i, s) ==
  LET r == from_kind(kind, heap, Inputs[i])
  IN /\ FreeSlot(s)
     /\ KindAccepts(kind, Inputs[i])
     /\ ~r.oom
     /\ vals' = [vals EXCEPT ![s] = IF r.panic THEN NoVal ELSE r.ivec]
     /\ heap' = r.heap
     /\ last' = [NoOp EXCEPT !.op = "from", !.r = IF r.panic THEN 0 ELSE s,
                             !.panic = r.panic, !.allocs = r.allocs]
     /\ UNCHANGED <<handles, views>>

\* the client makes a bare handle: Arc::from(bytes)
NewHandle(i) ==
  LET a == ArcFrom(heap, Inputs[i])
  IN /\ SumHandles(handles, MaxBufs) < MaxHandles
     /\ a.buf # NoBuf
     /\ heap' = a.heap
     /\ handles' = [handles EXCEPT ![a.buf] = @ + 1]
     /\ last' = [NoOp EXCEPT !.op = "new_handle", !.allocs = 1]
     /\ UNCHANGED <<vals, views>>

\* the client clones a bare handle
CloneHandle(b) ==
  /\ handles[b] > 0
  /\ SumHandles(handles, MaxBufs) < MaxHandles
  /\ heap' = ArcClone(heap, b)
  /\ handles' = [handles EXCEPT ![b] = @ + 1]
  /\ last' = [NoOp EXCEPT !.op = "clone_handle"]
  /\ UNCHANGED <<vals, views>>

\* the client drops a bare handle
DropHandle(b) ==
  /\ handles[b] > 0
  /\ heap' = ArcDrop(heap, b)
  /\ handles' = [handles EXCEPT ![b] = @ - 1]
  /\ last' = [NoOp EXCEPT !.op = "drop_handle"]
  /\ UNCHANGED <<vals, views>>

\* IVec::from(arc): consumes one bare handle
FromArc(b, s) ==
  LET r == from_arc(heap, b)
  IN /\ handles[b] > 0
     /\ FreeSlot(s)
     /\ vals' = [vals EXCEPT ![s] = r.ivec]
     /\ heap' = r.heap
     /\ handles' = [handles EXCEPT ![b] = @ - 1]
     /\ last' = [NoOp EXCEPT !.op = "from_arc", !.r = s]
     /\ UNCHANGED views

\* v.clone(), bound to a new variable
Clone(v, s) ==
  LET r == clone(heap, vals[v])
  IN /\ Live(vals[v])
     /\ FreeSlot(s)
     /\ vals' = [vals EXCEPT ![s] = r.ivec]
     /\ heap' = r.heap
     /\ views' = [views EXCEPT ![v] = NoView]
     /\ last' = [NoOp EXCEPT !.op = "clone", !.v = v, !.r = s]
     /\ UNCHANGED handles

\* the arguments <<start, len>> subslice is tried with, for a receiver of
\* length n: small windows, the whole, and the ranges at and past the end
SliceArgs(n) ==
  {<<0, 0>>, <<0, 1>>, <<1, 1>>, <<1, 2>>,
   <<0, n>>, <<n, 0>>, <<n, 1>>, <<0, n + 1>>, <<n + 1, 0>>}

\* v.subslice(start, length), bound to a new variable unless it panics
Subslice(v, start, length, s) ==
  LET r == subslice(heap, vals[v], start, length)
  IN /\ Live(vals[v])
     /\ FreeSlot(s)
     /\ vals' = [vals EXCEPT ![s] = r.ivec]
     /\ heap' = r.heap
     /\ views' = [views EXCEPT ![v] = NoView]
     /\ last' = [NoOp EXCEPT !.op = "subslice", !.v = v,
                             !.r = IF r.panic THEN 0 ELSE s,
                             !.panic = r.panic]
     /\ UNCHANGED handles

\* v.as_mut(): make_mut, then the mutable borrow
AsMut(v) ==
  LET r == as_mut(heap, vals[v])
  IN /\ Live(vals[v])
     /\ ~r.oom
     /\ vals' = [vals EXCEPT ![v] = r.ivec]
     /\ heap' = r.heap
     /\ views' = [views EXCEPT ![v] = as_mut_view(r.heap, r.ivec)]
     /\ last' = [NoOp EXCEPT !.op = "as_mut", !.v = v, !.panic = r.panic,
                             !.allocs = r.allocs]
     /\ UNCHANGED handles

\* the positions written through a view of length n
WriteAt(n) == {i \in {0, n - 1} : 0 <= i /\ i < n}

\* view[i] = byte, through the borrow as_mut returned
Write(v, i, byte) ==
  LET w == views[v]
  IN /\ w # NoView
     /\ IF w.kind = "inline"
          THEN /\ vals' = [vals EXCEPT ![v].data.inline[i + 1] = byte]
               /\ heap' = heap
          ELSE /\ heap' = [heap EXCEPT ![w.buf].bytes[w.offset + i + 1] = byte]
               /\ vals' = vals
     /\ last' = [NoOp EXCEPT !.op = "write", !.v = v]
     /\ UNCHANGED <<handles, views>>

\* v.into(): the value becomes a bare handle
Into(v) ==
  LET r == into(heap, vals[v])
  IN /\ Live(vals[v])
     /\ ~r.oom
     /\ SumHandles(handles, MaxBufs) < MaxHandles
     /\ vals' = [vals EXCEPT ![v] = NoVal]
     /\ heap' = r.heap
     /\ handles' = [handles EXCEPT ![r.buf] = @ + 1]
     /\ views' = [views EXCEPT ![v] = NoView]
     /\ last' = [NoOp EXCEPT !.op = "into", !.v = v, !.allocs = r.allocs]

\* v goes out of scope
Drop(v) ==
  /\ Live(vals[v])
  /\ vals' = [vals EXCEPT ![v] = NoVal]
  /\ heap' = drop(heap, vals[v])
  /\ views' = [views EXCEPT ![v] = NoView]
  /\ last' = [NoOp EXCEPT !.op = "drop", !.v = v]
  /\ UNCHANGED handles

\* the client performs one more operation
Step == steps < MaxSteps /\ steps' = steps + 1 /\ thr' = thr

Next ==
  \/ \E kind \in Kinds, i \in MainInputs, s \in Slots : Step /\ From(kind, i, s)
  \/ \E i \in MainInputs : Step /\ NewHandle(i)
  \/ \E b \in Bufs : Step /\ CloneHandle(b)
  \/ \E b \in Bufs : Step /\ DropHandle(b)
  \/ \E b \in Bufs, s \in Slots : Step /\ FromArc(b, s)
  \/ \E v \in Slots, s \in Slots : Step /\ Clone(v, s)
  \/ \E v \in Slots, s \in Slots :
        \E a \in SliceArgs(len(heap, vals[v])) : Step /\ Subslice(v, a[1], a[2], s)
  \/ \E v \in Slots : Step /\ AsMut(v)
  \/ \E v \in Slots, byte \in WriteVals :
        \E i \in WriteAt(views[v].len) : Step /\ Write(v, i, byte)
  \/ \E v \in Slots : Step /\ Into(v)
  \/ \E v \in Slots : Step /\ Drop(v)

Spec == Init /\ [][Next]_vars

\* Construction over every input length and entry point.
NextBytes ==
  \/ \E kind \in Kinds, i \in AllInputs, s \in Slots : Step /\ From(kind, i, s)
  \/ \E i \in AllInputs : Step /\ NewHandle(i)
  \/ \E b \in Bufs : Step /\ CloneHandle(b)
  \/ \E b \in Bufs : Step /\ DropHandle(b)
  \/ \E b \in Bufs, s \in Slots : Step /\ FromArc(b, s)
  \/ \E v \in Slots : Step /\ Drop(v)

SpecBytes == Init /\ [][NextBytes]_vars

\* Construction over every input length, clones, and chains of subslices.
NextSlice ==
  \/ \E i \in SliceInputs, s \in Slots : Step /\ From("slice", i, s)
  \/ \E v \in Slots, s \in Slots : Step /\ Clone(v, s)
  \/ \E v \in Slots, s \in Slots :
        \E a \in SliceArgs(len(heap, vals[v])) : Step /\ Subslice(v, a[1], a[2], s)
  \/ \E v \in Slots : Step /\ Drop(v)

SpecSlice == Init /\ [][NextSlice]_vars

\* Two threads. The client builds values, then moves v to a thread that calls
\* v.as_mut() and writes, and w to a thread that reads, clones and drops.
\* as_mut is taken apart into the steps another thread can interleave with.

\* thread::spawn: v and w, aliasing one buffer, move to the two threads
Spawn(v, w) ==
  /\ thr.pc = "idle"
  /\ v # w
  /\ Live(vals[v]) /\ Live(vals[w])
  /\ Shared(vals[v]) /\ Shared(vals[w])
  /\ vals[v].data.remote = vals[w].data.remote
  /\ thr' = [NoThreads EXCEPT !.pc = "check", !.v = v, !.w = w]
  /\ last' = [NoOp EXCEPT !.op = "spawn", !.v = v, !.r = w]
  /\ UNCHANGED <<vals, heap, handles, views, steps>>

\* make_mut, the match guards: the load of the strong count
MmCheck ==
  /\ thr.pc = "check"
  /\ thr' = [thr EXCEPT !.pc =
               IF Shared(vals[thr.v]) /\ strong_count(heap, vals[thr.v].data) # 1
                 THEN "copy" ELSE "borrow"]
  /\ last' = [NoOp EXCEPT !.op = "mm_check", !.v = thr.v]
  /\ UNCHANGED <<vals, heap, handles, views, steps>>

\* make_mut, the right-hand side: to_vec() of the buffer or of the window,
\* into a new Arc
MmCopy ==
  LET iv == vals[thr.v]
      bs == IF iv.state.tag = "Subslice"
              THEN Range(heap[iv.data.remote].bytes, iv.state.offset,
                         iv.state.offset + iv.state.len)
              ELSE heap[iv.data.remote].bytes
      a == ArcFrom(heap, bs)
  IN /\ thr.pc = "copy"
     /\ a.buf # NoBuf
     /\ heap' = a.heap
     /\ thr' = [thr EXCEPT !.pc = "rebind", !.tmp = a.buf]
     /\ last' = [NoOp EXCEPT !.op = "mm_copy", !.v = thr.v, !.allocs = 1]
     /\ UNCHANGED <<vals, handles, views, steps>>

\* make_mut, the assignments: self.data = Data { remote }, and
\* self.state = State::Remote; the Arc self.data held before is not dropped
MmRebind ==
  /\ thr.pc = "rebind"
  /\ vals' = [vals EXCEPT ![thr.v] =
                [data |-> DataRemote(thr.tmp), state |-> StateRemote]]
  /\ thr' = [thr EXCEPT !.pc = "borrow", !.tmp = NoBuf]
  /\ last' = [NoOp EXCEPT !.op = "mm_rebind", !.v = thr.v]
  /\ UNCHANGED <<heap, handles, views, steps>>

\* as_mut after make_mut: Arc::get_mut(..).unwrap(), and the slice of it
AmBorrow ==
  LET w == as_mut_view(heap, vals[thr.v])
  IN /\ thr.pc = "borrow"
     /\ views' = [views EXCEPT ![thr.v] = w]
     /\ thr' = [thr EXCEPT !.pc = IF w = NoView THEN "panicked" ELSE "view"]
     /\ last' = [NoOp EXCEPT !.op = "borrow", !.v = thr.v, !.panic = (w = NoView)]
     /\ UNCHANGED <<vals, heap, handles, steps>>

\* the writing thread writes through the view as_mut returned
ThreadWrite(i, byte) ==
  /\ thr.pc = "view"
  /\ Write(thr.v, i, byte)
  /\ UNCHANGED <<steps, thr>>

\* the other thread reads its value: as_ref
ThreadRead ==
  /\ thr.pc # "idle"
  /\ Live(vals[thr.w])
  /\ last' = [NoOp EXCEPT !.op = "read", !.v = thr.w]
  /\ UNCHANGED <<vals, heap, handles, views, steps, thr>>

\* the other thread clones its value and keeps the clone
ThreadClone ==
  /\ thr.pc # "idle"
  /\ Live(vals[thr.w])
  /\ thr.clones < MaxVals
  /\ heap' = clone(heap, vals[thr.w]).heap
  /\ thr' = [thr EXCEPT !.clones = @ + 1]
  /\ last' = [NoOp EXCEPT !.op = "clone", !.v = thr.w]
  /\ UNCHANGED <<vals, handles, views, steps>>

\* the other thread drops one of the clones it keeps
ThreadDropClone ==
  /\ thr.pc # "idle"
  /\ Live(vals[thr.w])
  /\ thr.clones > 0
  /\ heap' = drop(heap, vals[thr.w])
  /\ thr' = [thr EXCEPT !.clones = @ - 1]
  /\ last' = [NoOp EXCEPT !.op = "drop", !.v = thr.w, !.r = thr.clones]
  /\ UNCHANGED <<vals, handles, views, steps>>

\* the other thread drops its value; its clones are equal to it, so the
\* last one it holds stands for whichever it drops last
ThreadDrop ==
  /\ thr.pc # "idle"
  /\ Live(vals[thr.w])
  /\ thr.clones = 0
  /\ vals' = [vals EXCEPT ![thr.w] = NoVal]
  /\ heap' = drop(heap, vals[thr.w])
  /\ last' = [NoOp EXCEPT !.op = "drop", !.v = thr.w]
  /\ UNCHANGED <<handles, views, steps, thr>>

NextConc ==
  \/ \E i \in MainInputs, s \in Slots :
        thr.pc = "idle" /\ Step /\ From("slice", i, s)
  \/ \E v \in Slots, s \in Slots : thr.pc = "idle" /\ Step /\ Clone(v, s)
  \/ \E v \in Slots, s \in Slots :
        \E a \in SliceArgs(len(heap, vals[v])) :
          thr.pc = "idle" /\ Step /\ Subslice(v, a[1], a[2], s)
  \/ \E v \in Slots, w \in Slots : Spawn(v, w)
  \/ MmCheck
  \/ MmCopy
  \/ MmRebind
  \/ AmBorrow
  \/ /\ thr.pc = "view"
     /\ \E byte \in WriteVals :
          \E i \in WriteAt(views[thr.v].len) : ThreadWrite(i, byte)
  \/ ThreadRead
  \/ ThreadClone
  \/ ThreadDropClone
  \/ ThreadDrop

SpecConc == Init /\ [][NextConc]_vars

\* ------------------------------------------------------------------ claims
\* the bytes a mutable view points at
ViewBytes(h, vs, v) ==
  IF views'[v].kind = "inline"
    THEN Range(vs[v].data.inline, 0, views'[v].len)
    ELSE Range(h[views'[v].buf].bytes, views'[v].offset,
               views'[v].offset + views'[v].len)

\* v and w hold the same Arc
SameBuf(v, w) ==
  /\ Shared(vals[v])
  /\ Shared(vals[w])
  /\ vals[v].data.remote = vals[w].data.remote

\* the live values other than v that hold buffer b
OtherHolders(v, b) ==
  {w \in Slots \ {v} : Shared(vals[w]) /\ vals[w].data.remote = b}

\* v is Inline, or no other live value and no bare handle holds its buffer
Exclusive(v) ==
  \/ vals[v].state.tag = "Inline"
  \/ /\ Shared(vals[v])
     /\ OtherHolders(v, vals[v].data.remote) = {}
     /\ handles[vals[v].data.remote] = 0

\* C1: as_mut on one value, and a write through the view it returned, never
\* change the resolved bytes of any other live value, whether the two alias
\* one buffer (by clone or subslice) or are an Inline value and its clone.
C1_MutationIsolated ==
  [][\A v \in Slots, w \in Slots :
       (v # w /\ Live(vals[w]) /\ last'.op \in {"as_mut", "write"} /\ last'.v = v)
         => as_ref(heap', vals'[w]) = as_ref(heap, vals[w])]_vars

\* C1 witness: the 23-byte Remote value is intact after the subslice (1, 2)
\* taken from it was copied by as_mut and written through.
C1_Witness ==
  /\ last.op = "write"
  /\ vals[last.v].state.tag = "Remote"
  /\ as_ref(heap, vals[last.v]) = <<9, 3>>
  /\ \E w \in Slots \ {last.v} :
       /\ vals[w].state.tag = "Remote"
       /\ as_ref(heap, vals[w]) = Inputs[4]

\* C2: when two live values share one buffer with strong count 2 and as_mut
\* is called on one of them, the buffer's strong count is 1 afterwards.
C2_ShareReleased ==
  [][\A v \in Slots, w \in Slots :
       (/\ v # w
        /\ SameBuf(v, w)
        /\ strong_count(heap, vals[v].data) = 2
        /\ last'.op = "as_mut"
        /\ last'.v = v)
         => heap'[vals[v].data.remote].strong = 1]_vars

\* C3: in every reachable state, for every live value and every in-range
\* start, len, subslice yields a value resolving to the bytes
\* [start, start+len) of the receiver; from a Subslice receiver the new
\* offset is the receiver's offset plus start.
C3_SubsliceBytes ==
  \A v \in Slots :
    Live(vals[v]) =>
      \A a \in SliceArgs(len(heap, vals[v])) :
        a[1] + a[2] <= len(heap, vals[v]) =>
          LET r == subslice(heap, vals[v], a[1], a[2])
          IN /\ ~r.panic
             /\ as_ref(r.heap, r.ivec)
                  = Range(as_ref(heap, vals[v]), a[1], a[1] + a[2])
             /\ vals[v].state.tag = "Subslice" =>
                  r.ivec.state = StateSubslice(vals[v].state.offset + a[1], a[2])

\* C3 witness: a subslice of a Subslice was taken, at root offset 1 + 1.
C3_Witness ==
  /\ last.op = "subslice"
  /\ last.r # 0
  /\ vals[last.v].state = StateSubslice(1, 2)
  /\ vals[last.r].state = StateSubslice(2, 1)
  /\ as_ref(heap, vals[last.r]) = <<3>>

\* C4: subslice(start, len) panics exactly when start + len exceeds the
\* receiver's length, for every representation; a panicking call leaves
\* every value and every reference count as it was; subslice(N, 0) yields
\* an empty value.
C4_SubslicePanics ==
  [][\A v \in Slots, s \in Slots :
       (last'.op = "subslice" /\ last'.v = v) =>
         \A a \in SliceArgs(len(heap, vals[v])) :
           Subslice(v, a[1], a[2], s) =>
             /\ last'.panic <=> (a[1] + a[2] > len(heap, vals[v]))
             /\ last'.panic => (vals' = vals /\ heap' = heap /\ handles' = handles)
             /\ (~last'.panic /\ a[2] = 0) => as_ref(heap', vals'[s]) = <<>>]_vars

\* C4 witness: a subslice call on a Subslice receiver has panicked.
C4_Witness ==
  /\ last.op = "subslice"
  /\ last.panic
  /\ vals[last.v].state.tag = "Subslice"

\* C5 as stated: for the value built from 128 bytes of 4, subslice(1, 2) of
\* subslice(1, 2) succeeds with window offset 2, length 2.
C5_AsStated ==
  \A v \in Slots :
    (vals[v].state.tag = "Remote" /\ as_ref(heap, vals[v]) = Inputs[5]) =>
      LET r1 == subslice(heap, vals[v], 1, 2)
          r2 == subslice(r1.heap, r1.ivec, 1, 2)
      IN /\ ~r1.panic
         /\ ~r2.panic
         /\ r2.ivec.state = StateSubslice(2, 2)

\* C5 amended: for the value built from 128 bytes of 4, subslice(1, 2)
\* yields the window offset 1, length 2; subslice(1, 2) of that window
\* panics, since 1 + 2 exceeds its length 2; subslice(1, 1) of it yields
\* the window root offset 2, length 1 of the same buffer.
C5_NestedWindow ==
  \A v \in Slots :
    (vals[v].state.tag = "Remote" /\ as_ref(heap, vals[v]) = Inputs[5]) =>
      LET r1 == subslice(heap, vals[v], 1, 2)
          r2 == subslice(r1.heap, r1.ivec, 1, 2)
          r3 == subslice(r1.heap, r1.ivec, 1, 1)
      IN /\ ~r1.panic
         /\ r1.ivec.state = StateSubslice(1, 2)
         /\ r2.panic
         /\ ~r3.panic
         /\ r3.ivec.state = StateSubslice(2, 1)
         /\ r3.ivec.data = vals[v].data
         /\ as_ref(r3.heap, r3.ivec) = <<4>>

\* C5 witness: subslice(1, 1) was applied to the window (1, 2) of the
\* 128-byte buffer.
C5_Witness ==
  /\ last.op = "subslice"
  /\ last.r # 0
  /\ vals[last.v].state = StateSubslice(1, 2)
  /\ vals[last.r].state = StateSubslice(2, 1)
  /\ heap[vals[last.r].data.remote].bytes = Inputs[5]

\* C6: for every input byte sequence (empty, short, 22, 23 and 128 bytes)
\* and every construction entry point, the constructed value resolves to
\* exactly the input.
C6_ConstructResolve ==
  /\ \A kind \in Kinds, i \in AllInputs :
       KindAccepts(kind, Inputs[i]) =>
         LET r == from_kind(kind, heap, Inputs[i])
         IN ~r.oom => (~r.panic /\ as_ref(r.heap, r.ivec) = Inputs[i])
  /\ \A b \in Bufs :
       handles[b] > 0 =>
         LET r == from_arc(heap, b)
         IN ~r.panic /\ as_ref(r.heap, r.ivec) = heap[b].bytes
  /\ (last.op \in {"from", "from_arc"})
       => (last.r # 0 /\ \E i \in AllInputs : as_ref(heap, vals[last.r]) = Inputs[i])

\* C6 witness: a value was constructed from the 22-byte input and resolves
\* to it.
C6_Witness ==
  /\ last.op = "from"
  /\ last.r # 0
  /\ as_ref(heap, vals[last.r]) = Inputs[3]

\* C7: as_mut without a write leaves the value's resolved bytes unchanged in
\* every representation and sharing situation; the returned view has
\* exactly those bytes; a value equal to it before stays equal to it.
C7_AsMutIdentity ==
  [][\A v \in Slots :
       (last'.op = "as_mut" /\ last'.v = v) =>
         /\ as_ref(heap', vals'[v]) = as_ref(heap, vals[v])
         /\ views'[v] # NoView
         /\ ViewBytes(heap', vals', v) = as_ref(heap, vals[v])
         /\ \A w \in Slots \ {v} :
              (Live(vals[w]) /\ as_ref(heap, vals[w]) = as_ref(heap, vals[v]))
                => as_ref(heap', vals'[w]) = as_ref(heap', vals'[v])]_vars

\* C7 witness: as_mut copied the window of a shared Subslice into a fresh
\* Remote buffer while the other holder is still live.
C7_Witness ==
  /\ last.op = "as_mut"
  /\ last.allocs = 1
  /\ vals[last.v].state.tag = "Remote"
  /\ as_ref(heap, vals[last.v]) = <<2, 3>>
  /\ \E w \in Slots \ {last.v} : Shared(vals[w])

\* C8: every as_mut call allocates at most one buffer, and none when the
\* value is Inline or is the only live holder of its buffer.
C8_AllocOnlyWhenShared ==
  [][\A v \in Slots :
       (last'.op = "as_mut" /\ last'.v = v) =>
         /\ last'.allocs <= 1
         /\ Exclusive(v) => last'.allocs = 0]_vars

\* C9: once every value and every handle has been dropped, no buffer
\* remains allocated.
C9_AllFreed ==
  ((\A s \in Slots : ~Live(vals[s])) /\ (\A b \in Bufs : handles[b] = 0))
    => \A b \in Bufs : heap[b].strong = 0

\* C10: as_mut never panics: while the borrow it returned is outstanding
\* the buffer it points into has strong count 1 and no other live value and
\* no bare handle holds it, so no write reaches a buffer another value
\* references; an immediately repeated as_mut on the same value copies
\* nothing.
C10_AsMutTotal ==
  [][/\ last'.op = "as_mut" => ~last'.panic
     /\ \A v \in Slots :
          views'[v].kind = "arc" =>
            /\ heap'[views'[v].buf].strong = 1
            /\ handles'[views'[v].buf] = 0
            /\ vals'[v].data.remote = views'[v].buf
            /\ \A w \in Slots \ {v} :
                 ~(Shared(vals'[w]) /\ vals'[w].data.remote = views'[v].buf)
     /\ (last.op = "as_mut" /\ last'.op = "as_mut" /\ last'.v = last.v)
          => last'.allocs = 0]_vars

\* C10 witness: as_mut on a Remote whose buffer was shared returned a view
\* into a fresh copy.
C10_Witness ==
  /\ last.op = "as_mut"
  /\ last.allocs = 1
  /\ vals[last.v].state.tag = "Remote"
  /\ views[last.v].kind = "arc"
  /\ Len(as_ref(heap, vals[last.v])) = CUTOFF + 1

\* C11: once two values aliasing one buffer are owned by two threads, no step
\* of either thread (the count check, copy, rebind, borrow and writes of the
\* one; the reads, clones and drops of the other) changes the bytes the
\* other thread's value resolves to, and every write goes to a buffer the
\* other thread's value does not reference.
C11_ThreadIsolation ==
  [][thr.pc # "idle" =>
       /\ (Live(vals[thr.w]) /\ Live(vals'[thr.w])) =>
            as_ref(heap', vals'[thr.w]) = as_ref(heap, vals[thr.w])
       /\ (last'.op = "write" /\ views[thr.v].kind = "arc"
             /\ Live(vals[thr.w]) /\ Shared(vals[thr.w])) =>
            views[thr.v].buf # vals[thr.w].data.remote]_vars

\* The writing thread has copied and written byte 0 of its value while the
\* other thread, holding its value and a clone of it, still resolves the
\* bytes it started with.
C11_Witness ==
  /\ thr.pc = "view"
  /\ last.op = "write"
  /\ thr.clones = 1
  /\ Live(vals[thr.w])
  /\ Len(as_ref(heap, vals[thr.w])) > 0
  /\ as_ref(heap, vals[thr.v])[1] \in WriteVals
  /\ as_ref(heap, vals[thr.w])[1] \notin WriteVals

\* C12: every entry point applies one sizing policy: input of at most CUTOFF
\* bytes gives an Inline value, longer input a Remote one. From a bare
\* handle of at most CUTOFF bytes the bytes are copied Inline, the value
\* holds no buffer, and the handle's count is not raised (the handle passed
\* in is released); a longer handle becomes the Remote value's buffer as is.
C12_SizingPolicy ==
  /\ \A kind \in Kinds, i \in AllInputs :
       KindAccepts(kind, Inputs[i]) =>
         LET r == from_kind(kind, heap, Inputs[i])
         IN ~r.oom =>
              /\ ~r.panic
              /\ r.ivec.state.tag =
                   IF Len(Inputs[i]) <= CUTOFF THEN "Inline" ELSE "Remote"
              /\ r.ivec.state.tag = "Inline" =>
                   (r.ivec.data.remote = NoBuf /\ r.heap = heap)
  /\ \A b \in Bufs :
       handles[b] > 0 =>
         LET r == from_arc(heap, b)
         IN IF Len(heap[b].bytes) <= CUTOFF
              THEN /\ r.ivec.state.tag = "Inline"
                   /\ r.ivec.data.remote = NoBuf
                   /\ r.heap[b].strong <= heap[b].strong
                   /\ heap[b].strong > 1 => r.heap[b].strong = heap[b].strong - 1
                   /\ \A c \in Bufs \ {b} : r.heap[c] = heap[c]
              ELSE /\ r.ivec.state.tag = "Remote"
                   /\ r.ivec.data.remote = b
                   /\ r.heap = heap
  /\ (last.op \in {"from", "from_arc"} /\ last.r # 0) =>
       (vals[last.r].state.tag =
          IF Len(as_ref(heap, vals[last.r])) <= CUTOFF THEN "Inline" ELSE "Remote")

\* C12 witness: a value was built from one of two handles to a 3-byte
\* buffer; it is Inline, and the buffer is left to the other handle alone.
C12_Witness ==
  /\ last.op = "from_arc"
  /\ vals[last.r].state.tag = "Inline"
  /\ vals[last.r].data.remote = NoBuf
  /\ \E b \in Bufs :
       /\ handles[b] = 1
       /\ heap[b].strong = 1
       /\ heap[b].bytes = as_ref(heap, vals[last.r])
       /\ heap[b].bytes = Inputs[2]

\* C13: subslice never crosses families. On an Inline receiver it yields an
\* Inline value that holds no buffer and moves no count; on a Remote or
\* Subslice receiver it yields a Subslice over the receiver's buffer, whose
\* count rises by exactly one, whatever the requested length (0 and lengths
\* of at most CUTOFF included). So no subslice of a shared value is Inline.
C13_SubsliceFamily ==
  /\ \A v \in Slots :
       Live(vals[v]) =>
         \A a \in SliceArgs(len(heap, vals[v])) :
           LET r == subslice(heap, vals[v], a[1], a[2])
           IN ~r.panic =>
                IF vals[v].state.tag = "Inline"
                  THEN /\ r.ivec.state.tag = "Inline"
                       /\ r.ivec.data.remote = NoBuf
                       /\ r.heap = heap
                  ELSE /\ r.ivec.state.tag = "Subslice"
                       /\ r.ivec.state.len = a[2]
                       /\ r.ivec.data.remote = vals[v].data.remote
                       /\ r.heap = [heap EXCEPT ![vals[v].data.remote].strong = @ + 1]
  /\ (last.op = "subslice" /\ last.r # 0) =>
       /\ Live(vals[last.v])
       /\ (vals[last.r].state.tag = "Inline") <=> (vals[last.v].state.tag = "Inline")
       /\ Shared(vals[last.v]) =>
            /\ vals[last.r].state.tag = "Subslice"
            /\ vals[last.r].data.remote = vals[last.v].data.remote

\* C13 witness: an empty window was taken from a value that is itself a
\* window of a shared buffer; it is a Subslice over that same buffer.
C13_Witness ==
  /\ last.op = "subslice"
  /\ last.r # 0
  /\ vals[last.v].state.tag = "Subslice"
  /\ vals[last.r].state.tag = "Subslice"
  /\ vals[last.r].state.len = 0
  /\ vals[last.r].data.remote = vals[last.v].data.remote
  /\ heap[vals[last.r].data.remote].strong >= 2

\* the lexicographic order of two byte sequences, stated position by position
LexLess(a, b) ==
  \E k \in 0..Len(a) :
    /\ k <= Len(b)
    /\ \A j \in 1..k : a[j] = b[j]
    /\ \/ (k = Len(a) /\ k < Len(b))
       \/ (k < Len(a) /\ k < Len(b) /\ a[k + 1] < b[k + 1])

\* C14: eq, cmp and hash of values depend on their resolved bytes only:
\* two values resolving to the same bytes, whatever their representations,
\* are equal, compare Equal and hash alike; values resolving to different
\* bytes are unequal; and cmp of any two values is the lexicographic order
\* of their resolved bytes.
C14_BytesOnly ==
  \A v \in Slots, w \in Slots :
    (Live(vals[v]) /\ Live(vals[w])) =>
      LET a == as_ref(heap, vals[v])
          b == as_ref(heap, vals[w])
      IN /\ eq(heap, vals[v], vals[w]) <=> (a = b)
         /\ (a = b) => /\ cmp(heap, vals[v], vals[w]) = "Equal"
                       /\ hash(heap, vals[v]) = hash(heap, vals[w])
         /\ cmp(heap, vals[v], vals[w]) =
              IF LexLess(a, b) THEN "Less"
              ELSE IF LexLess(b, a) THEN "Greater" ELSE "Equal"

\* C14 witness: an Inline value and a window of a shared buffer resolve to
\* the same two bytes.
C14_Witness ==
  \E v \in Slots, w \in Slots :
    /\ vals[v].state.tag = "Inline"
    /\ vals[w].state.tag = "Subslice"
    /\ as_ref(heap, vals[v]) = Inputs[6]
    /\ as_ref(heap, vals[w]) = Inputs[6]
    /\ eq(heap, vals[v], vals[w])

\* C15: into() yields a handle whose bytes are the value's resolved bytes.
\* From an Inline value the handle is a fresh buffer of count 1 and nothing
\* else moves; from a Remote value it is the value's own buffer, whose count
\* is the same after the value is consumed; from a Subslice it is a fresh
\* buffer of count 1 holding the window only, and the original buffer loses
\* the share of the consumed value.
C15_IntoHandle ==
  \A v \in Slots :
    Live(vals[v]) =>
      LET iv == vals[v]
          r == into(heap, iv)
          old == iv.data.remote
      IN ~r.oom =>
           /\ r.heap[r.buf].bytes = as_ref(heap, iv)
           /\ iv.state.tag = "Inline" =>
                /\ heap[r.buf].strong = 0
                /\ r.heap[r.buf].strong = 1
                /\ \A c \in Bufs \ {r.buf} : r.heap[c] = heap[c]
           /\ iv.state.tag = "Remote" =>
                /\ r.buf = old
                /\ r.heap = heap
           /\ iv.state.tag = "Subslice" =>
                /\ r.buf # old
                /\ heap[r.buf].strong = 0
                /\ r.heap[r.buf].strong = 1
                /\ Len(r.heap[r.buf].bytes) = iv.state.len
                /\ r.heap[old].strong = heap[old].strong - 1
                /\ \A c \in Bufs \ {r.buf, old} : r.heap[c] = heap[c]

\* C15 witness: a window of two bytes was turned into a handle; the handle's
\* buffer holds those two bytes alone with count 1, and the 23-byte buffer
\* the window was taken from is left with the one value that still holds it.
C15_Witness ==
  /\ last.op = "into"
  /\ last.allocs = 1
  /\ \E b \in Bufs, c \in Bufs, w \in Slots :
       /\ handles[b] = 1
       /\ heap[b].strong = 1
       /\ heap[b].bytes = <<2, 3>>
       /\ vals[w].state.tag = "Remote"
       /\ vals[w].data.remote = c
       /\ heap[c].bytes = Inputs[4]
       /\ heap[c].strong = 1

C17_TagTransitions ==
  [][\A v \in Slots :
       (Live(vals[v]) /\ Live(vals'[v])) =>
         LET iv == vals[v]
             old == iv.data.remote
             new == vals'[v].data.remote
             count == IF Shared(iv) THEN heap[old].strong ELSE 0
         IN /\ (vals'[v].state # iv.state) =>
                 /\ last'.op = "as_mut" /\ last'.v = v
                 /\ iv.state.tag = "Subslice"
                 /\ count > 1
            /\ (last'.op = "as_mut" /\ last'.v = v) =>
                 /\ (iv.state.tag = "Inline" \/ count = 1) =>
                      (vals'[v] = iv /\ heap' = heap)
                 /\ (iv.state.tag = "Remote" /\ count > 1) =>
                      /\ vals'[v].state = StateRemote
                      /\ new # old
                      /\ heap[new].strong = 0
                      /\ heap'[new] = [bytes |-> heap[old].bytes, strong |-> 1]
                 /\ (iv.state.tag = "Subslice" /\ count > 1) =>
                      /\ vals'[v].state = StateRemote
                      /\ new # old
                      /\ heap[new].strong = 0
                      /\ heap'[new] = [bytes |-> as_ref(heap, iv), strong |-> 1]
                      /\ Len(heap'[new].bytes) = iv.state.len]_vars

\* C17 witness: as_mut was called on a Subslice that holds its buffer
\* alone; it is still a Subslice and the view points into that buffer.
C17_Witness ==
  /\ last.op = "as_mut"
  /\ last.allocs = 0
  /\ vals[last.v].state.tag = "Subslice"
  /\ views[last.v].kind = "arc"
  /\ heap[vals[last.v].data.remote].strong = 1

\* C18: in every reachable state every Subslice value has
\* offset + len <= the length of the buffer it points into, and that buffer
\* is allocated. So for every subslice call that passes the assertion the
\* accumulated offset plus the new length stays within the buffer (the sum
\* offset + slice_offset cannot overflow), and as_ref indexes inside it.
C18_WindowInBounds ==
  \A v \in Slots :
    vals[v].state.tag = "Subslice" =>
      LET iv == vals[v]
          n == Len(heap[iv.data.remote].bytes)
      IN /\ heap[iv.data.remote].strong >= 1
         /\ 0 <= iv.state.offset
         /\ 0 <= iv.state.len
         /\ iv.state.offset + iv.state.len <= n
         /\ \A a \in SliceArgs(iv.state.len) :
              LET r == subslice(heap, iv, a[1], a[2])
              IN ~r.panic =>
                   /\ r.ivec.state.offset = iv.state.offset + a[1]
                   /\ r.ivec.state.offset <= n
                   /\ r.ivec.state.offset + r.ivec.state.len <= n

\* C18 witness: a window taken from a window of the 23-byte buffer starts
\* after it and ends exactly where it ends.
C18_Witness ==
  /\ last.op = "subslice"
  /\ last.r # 0
  /\ vals[last.v].state.tag = "Subslice"
  /\ vals[last.v].state.offset > 0
  /\ vals[last.r].state.tag = "Subslice"
  /\ vals[last.r].state.offset > vals[last.v].state.offset
  /\ vals[last.r].state.offset + vals[last.r].state.len
       = vals[last.v].state.offset + vals[last.v].state.len
  /\ Len(heap[vals[last.r].data.remote].bytes) = CUTOFF + 1

\* the live values whose data is a share of buffer b
Holders(b) == {v \in Slots : Shared(vals[v]) /\ vals[v].data.remote = b}

\* C19: the strong count of every buffer is at least the number of live
\* Remote and Subslice values pointing into it plus the bare handles to it;
\* so a buffer a live value or a handle points into is allocated.
C19_CountCoversHolders ==
  \A b \in Bufs :
    /\ heap[b].strong >= Cardinality(Holders(b)) + handles[b]
    /\ (Holders(b) # {} \/ handles[b] > 0) => heap[b].strong >= 1

\* C19 witness: a value built from one of two handles to a buffer was
\* cloned; the buffer is held by two live values and a bare handle and its
\* count is 3.
C19_Witness ==
  /\ last.op = "clone"
  /\ \E b \in Bufs :
       /\ Cardinality(Holders(b)) = 2
       /\ handles[b] = 1
       /\ heap[b].strong = 3

\* C20: after any sequence of constructions, clones and subslices every
\* Inline value has a length tag between 0 and CUTOFF; no construction of
\* any length panics (neither the assertion nor the u8 conversion of
\* IVec::inline fails) or makes an Inline value of more than CUTOFF bytes;
\* and a subslice of an Inline value that passes the range assertion never
\* fails its u8 conversion.
C20_InlineLenBounded ==
  /\ \A v \in Slots :
       vals[v].state.tag = "Inline" =>
         /\ 0 <= vals[v].state.len
         /\ vals[v].state.len <= CUTOFF
         /\ vals[v].state.len <= U8Max
         /\ \A a \in SliceArgs(vals[v].state.len) :
              subslice_assert(vals[v].state.len, a[1], a[2]) =>
                /\ u8_try_from(a[2]) = a[2]
                /\ ~subslice(heap, vals[v], a[1], a[2]).panic
  /\ \A i \in SliceInputs :
       /\ is_inline_candidate(Len(Inputs[i])) =>
            (~inline_panics(Inputs[i]) /\ Len(Inputs[i]) <= CUTOFF)
       /\ LET r == from_slice(heap, Inputs[i])
          IN ~r.oom =>
               /\ ~r.panic
               /\ r.ivec.state.tag = "Inline" => Len(Inputs[i]) <= CUTOFF

\* C20 witness: the whole of the 22-byte Inline value was taken as a
\* subslice: an Inline value of length exactly CUTOFF.
C20_Witness ==
  /\ last.op = "subslice"
  /\ last.r # 0
  /\ vals[last.r].state = StateInline(CUTOFF)
  /\ vals[last.v].state = StateInline(CUTOFF)
  /\ as_ref(heap, vals[last.r]) = Inputs[3]

====
